---- MODULE Spec2Model ----
(***************************************************************************)
(* Model of the ANP <-> MCP bridge of simple_anp_mcp_service.py:           *)
(* AnpMcpBridge (identity registry, session store, the two conversions)   *)
(* as constructed by AnpMcpService.__init__.                               *)
(*                                                                         *)
(* JSON values are tagged records [t |-> <type>, v |-> <payload>].        *)
(* Strings that the code only stores, compares or hashes (did, id, token) *)
(* carry a TLA+ string; an intent, which the code splits and re-cases,    *)
(* carries the sequence of its characters, and so does a method name.     *)
(*                                                                         *)
(* Spec     the bridge handling one request after the other;              *)
(* SpecFn   each conversion applied to one input drawn from a bounded set; *)
(* SpecLoop simultaneous requests served by the routes on one event loop.  *)
(***************************************************************************)
EXTENDS Integers, Sequences, FiniteSets, TLC

\* ---------------------------------------------------------------- bounds
\* how many of the 16^8 values of uuid4().hex[:8] the model distinguishes
NumIds == 2
\* how many calls the bridge receives in a run
MaxCalls == 3
\* the longest intent, in characters, and the largest parameters mapping, in
\* keys, the conversions are applied to one by one
MaxIntentLen == 4
MaxParams == 2

\* ------------------------------------------------------------ JSON values
\* a str; a null; an array (v names its content, "" for the empty array);
\* an int; an object as the sequence of its <<key, value>> pairs in insertion
\* order, its keys distinct
Str(s) == [t |-> "str", v |-> s]
Null == [t |-> "null", v |-> ""]
List(s) == [t |-> "list", v |-> s]
Num(n) == [t |-> "int", v |-> n]
Dict(pairs) == [t |-> "dict", v |-> pairs]

\* Truthy without the emptiness test of a str
Truthy_nonempty_dropped(x) ==
  CASE x.t = "str" -> TRUE
    [] x.t = "null" -> FALSE
    [] x.t = "list" -> x.v # ""
    [] x.t = "int" -> x.v # 0
    [] x.t = "dict" -> x.v # <<>>

\* Python's truth value of a did (`not did`)
Truthy(x) ==
  CASE x.t = "str" -> x.v # ""
    [] x.t = "null" -> FALSE
    [] x.t = "list" -> x.v # ""
    [] x.t = "int" -> x.v # 0
    [] x.t = "dict" -> x.v # <<>>

\* a list or a dict is unhashable: using it as a dict key raises TypeError
Hashable(x) == x.t \notin {"list", "dict"}

\* only a str has .split(), only a dict has .items() and .get()
IsStr(x) == x.t = "str"
IsMapping(x) == x.t = "dict"

\* dict.get(key, default) on a TLA+ function
Get(d, k, default) == IF k \in DOMAIN d THEN d[k] ELSE default

\* key in d, and d.get(key, default), on a JSON object
HasKey(d, k) == \E i \in 1..Len(d.v) : d.v[i][1] = k
DictGet(d, k, default) ==
  IF HasKey(d, k) THEN d.v[CHOOSE i \in 1..Len(d.v) : d.v[i][1] = k][2]
  ELSE default

\* type(x).__name__, as it appears in the text of an exception
TypeName(x) ==
  CASE x.t = "str" -> "str"
    [] x.t = "null" -> "NoneType"
    [] x.t = "list" -> "list"
    [] x.t = "int" -> "int"
    [] x.t = "dict" -> "dict"

\* ------------------------------------------------------- character level
UpperAlpha ==
  <<"A","B","C","D","E","F","G","H","I","J","K","L","M",
    "N","O","P","Q","R","S","T","U","V","W","X","Y","Z">>
LowerAlpha ==
  <<"a","b","c","d","e","f","g","h","i","j","k","l","m",
    "n","o","p","q","r","s","t","u","v","w","x","y","z">>
Whitespace == {" ", "\t", "\n"}

LowerChar(c) ==
  IF \E i \in 1..26 : UpperAlpha[i] = c
  THEN LowerAlpha[CHOOSE i \in 1..26 : UpperAlpha[i] = c]
  ELSE c
UpperChar(c) ==
  IF \E i \in 1..26 : LowerAlpha[i] = c
  THEN UpperAlpha[CHOOSE i \in 1..26 : LowerAlpha[i] = c]
  ELSE c

\* str.lower()
Lower(s) == [i \in 1..Len(s) |-> LowerChar(s[i])]
\* str.capitalize(): first character upper-cased, all the others lower-cased
Capitalize(s) ==
  [i \in 1..Len(s) |-> IF i = 1 THEN UpperChar(s[i]) ELSE LowerChar(s[i])]

\* str.split() with no argument: maximal runs of non-whitespace characters
RECURSIVE SplitFrom(_, _, _)
SplitFrom(s, i, cur) ==
  IF i > Len(s)
  THEN IF cur = <<>> THEN <<>> ELSE <<cur>>
  ELSE IF s[i] \in Whitespace
       THEN IF cur = <<>> THEN SplitFrom(s, i + 1, <<>>)
            ELSE <<cur>> \o SplitFrom(s, i + 1, <<>>)
       ELSE SplitFrom(s, i + 1, Append(cur, s[i]))
Split(s) == SplitFrom(s, 1, <<>>)

\* ''.join(word.capitalize() for word in words)
RECURSIVE JoinCapitalized(_)
JoinCapitalized(words) ==
  IF words = <<>> THEN <<>>
  ELSE Capitalize(Head(words)) \o JoinCapitalized(Tail(words))

\* --------------------------------------------------------- mapping tables
query == <<"q","u","e","r","y">>
getWeather == <<"g","e","t","W","e","a","t","h","e","r">>
getWeatherForecast ==
  <<"g","e","t","W","e","a","t","h","e","r","F","o","r","e","c","a","s","t">>
getWeatherAlert ==
  <<"g","e","t","W","e","a","t","h","e","r","A","l","e","r","t">>
getUserInfo == <<"g","e","t","U","s","e","r","I","n","f","o">>
updateUserInfo == <<"u","p","d","a","t","e","U","s","e","r","I","n","f","o">>
getOrderInfo == <<"g","e","t","O","r","d","e","r","I","n","f","o">>
createOrder == <<"c","r","e","a","t","e","O","r","d","e","r">>
processPayment ==
  <<"p","r","o","c","e","s","s","P","a","y","m","e","n","t">>

\* self.intent_method_map, as a set of <<intent, method>> pairs; a character
\* outside ASCII is written as the name of its code point
intent_method_map ==
  { << <<"U+67E5","U+8BE2","U+5929","U+6C14">>, getWeather >>,
    << <<"U+83B7","U+53D6","U+5929","U+6C14","U+9884","U+62A5">>,
       getWeatherForecast >>,
    << <<"U+83B7","U+53D6","U+5929","U+6C14","U+9884","U+8B66">>,
       getWeatherAlert >>,
    << <<"U+67E5","U+8BE2","U+7528","U+6237","U+4FE1","U+606F">>,
       getUserInfo >>,
    << <<"U+66F4","U+65B0","U+7528","U+6237","U+4FE1","U+606F">>,
       updateUserInfo >>,
    << <<"U+67E5","U+8BE2","U+8BA2","U+5355">>, getOrderInfo >>,
    << <<"U+521B","U+5EFA","U+8BA2","U+5355">>, createOrder >>,
    << <<"U+5904","U+7406","U+652F","U+4ED8">>, processPayment >> }

\* the local param_key_map of _convert_anp_params_to_mcp
param_key_map ==
  [user_id |-> "userId", order_id |-> "orderId", page_size |-> "pageSize",
   page_num |-> "pageNum", city |-> "cityName", date |-> "queryDate"]

\* _default_method_conversion with words[0] for words[0].lower()
_default_method_conversion_first_kept(intent) ==
  LET words == Split(intent)
  IN IF words = <<>> THEN query
     ELSE Head(words) \o JoinCapitalized(Tail(words))

\* words[0].lower() + ''.join(word.capitalize() for word in words[1:])
_default_method_conversion(intent) ==
  LET words == Split(intent)
  IN IF words = <<>> THEN query
     ELSE Lower(Head(words)) \o JoinCapitalized(Tail(words))

\* _convert_intent_to_method without the table lookup
_convert_intent_to_method_fallback(intent) == _default_method_conversion(intent)

\* self.intent_method_map.get(intent, self._default_method_conversion(intent))
_convert_intent_to_method(intent) ==
  IF \E p \in intent_method_map : p[1] = intent
  THEN (CHOOSE p \in intent_method_map : p[1] = intent)[2]
  ELSE _default_method_conversion(intent)

\* for key, value in params.items(): converted[map.get(key, key)] = value
\* (params is the sequence of pairs of a JSON object; the result is the
\* mapping built by the assignments, a later one replacing an earlier one)
RECURSIVE ConvertLoop(_, _)
ConvertLoop(items, converted) ==
  IF items = <<>> THEN converted
  ELSE LET key == Head(items)[1]
           value == Head(items)[2]
           new_key == Get(param_key_map, key, key)
           rest == [k \in DOMAIN converted \ {new_key} |-> converted[k]]
       IN ConvertLoop(Tail(items), rest @@ (new_key :> value))
\* _convert_anp_params_to_mcp with converted[key] = value
_convert_anp_params_to_mcp_unrenamed(params) ==
  [k \in {params.v[i][1] : i \in 1..Len(params.v)} |->
     params.v[CHOOSE i \in 1..Len(params.v) : params.v[i][1] = k][2]]
_convert_anp_params_to_mcp(params) == ConvertLoop(params.v, <<>>)

\* _convert_mcp_result_to_anp returns its argument
_convert_mcp_result_to_anp(result) == result

\* ------------------------------------------------------------- messages
\* the literal messages of the code, a character outside ASCII written as
\* the name of its code point
MsgInvalidAnp == "U+65E0 U+6548 U+7684 ANP U+8BF7 U+6C42 U+683C U+5F0F"
MsgInvalidDid == "U+65E0 U+6548 U+7684 DID"
MsgInvalidMcp == "U+65E0 U+6548 U+7684 MCP U+54CD U+5E94 U+683C U+5F0F"
MsgNoSession ==
  "U+672A U+627E U+5230 U+5BF9 U+5E94 U+7684 U+4F1A U+8BDD U+4FE1 U+606F"
MsgUnknown == "U+672A U+77E5 U+9519 U+8BEF"
MsgFailed == "U+8F6C U+6362 U+5931 U+8D25 : "

\* the dict returned on a failure
Failure(code, msg) ==
  [success |-> FALSE, error |-> Str(msg), error_code |-> Str(code)]
\* an exception raised inside a try block, text being str(e)
Raise(text) == [raised |-> text]
IsRaise(outcome) == "raised" \in DOMAIN outcome
\* except_Exception as `except Exception: raise`
except_Exception_reraise(outcome) == outcome
\* except Exception as e: the outcome of the try block, an exception replaced
\* by the failure built from its text
except_Exception(outcome) ==
  IF IsRaise(outcome)
  THEN Failure("CONVERSION_ERROR", MsgFailed \o outcome.raised)
  ELSE outcome
\* the call ends in the except clause with an exception of this text
ConversionError(text) == except_Exception(Raise(text))
\* str(e) of the TypeError of hashing x, of the AttributeError of x.attr
Unhashable(x) == "unhashable type: '" \o TypeName(x) \o "'"
NoAttribute(x, attr) ==
  "'" \o TypeName(x) \o "' object has no attribute '" \o attr \o "'"

\* ------------------------------------------------------ identity registry
\* register_did as self.did_oauth_map.setdefault(did, oauth_token)
register_did_setdefault(did_map, did, oauth_token) ==
  [d \in DOMAIN did_map \cup {did} |->
     IF d \in DOMAIN did_map THEN did_map[d] ELSE oauth_token]

\* register_did as self.did_oauth_map = {did: oauth_token}
register_did_replace(did_map, did, oauth_token) == did :> oauth_token

\* self.did_oauth_map[did] = oauth_token
register_did(did_map, did, oauth_token) ==
  [d \in DOMAIN did_map \cup {did} |->
     IF d = did THEN oauth_token ELSE did_map[d]]

\* ------------------------------------------------------------ ANP -> MCP
\* _validate_anp_request with any(...) for all(...)
_validate_anp_request_any(request) ==
  \E field \in {"did", "intent"} : field \in DOMAIN request

\* all(field in request for field in ["did", "intent"])
_validate_anp_request(request) ==
  \A field \in {"did", "intent"} : field \in DOMAIN request

\* Registered without the membership test
Registered_unchecked(did, did_map) == did.t = "str"

\* did in self.did_oauth_map, for a hashable did
Registered(did, did_map) == did.t = "str" /\ did.v \in DOMAIN did_map

\* the two failures anp_to_mcp returns by itself
InvalidAnpFormat == Failure("INVALID_ANP_FORMAT", MsgInvalidAnp)
InvalidDid == Failure("INVALID_DID", MsgInvalidDid)

\* the dict anp_to_mcp returns, request_id being the value of
\* f"req-{uuid.uuid4().hex[:8]}" in this call; every exception a step
\* raises ends the call in the except clause
anp_to_mcp(anp_request, did_map, request_id) ==
  IF ~_validate_anp_request(anp_request) THEN InvalidAnpFormat
  ELSE
    LET did == Get(anp_request, "did", Null)
        intent == Get(anp_request, "intent", Null)
        parameters == Get(anp_request, "parameters", Dict(<<>>))
    IN IF ~Truthy(did) THEN InvalidDid
       ELSE IF ~Hashable(did) THEN ConversionError(Unhashable(did))
       ELSE IF ~Registered(did, did_map) THEN InvalidDid
       ELSE IF did.v \notin DOMAIN did_map  \* self.did_oauth_map[did]
       THEN ConversionError("'" \o did.v \o "'")
       ELSE IF ~IsStr(intent)
       THEN ConversionError(NoAttribute(intent, "split"))
       ELSE IF ~IsMapping(parameters)
       THEN ConversionError(NoAttribute(parameters, "items"))
       ELSE [success |-> TRUE,
             mcp_request |->
               [jsonrpc |-> "2.0",
                method |-> _convert_intent_to_method(intent.v),
                params |-> _convert_anp_params_to_mcp(parameters),
                id |-> request_id,
                oauth_token |-> did_map[did.v]],
             request_id |-> request_id]

\* the entry anp_to_mcp stores, now being datetime.now().isoformat()
SessionEntry(anp_request, now) ==
  [anp_request |-> anp_request,
   timestamp |-> now,
   did |-> Get(anp_request, "did", Null)]

\* anp_to_mcp_sessions as self.session_map.setdefault(request_id, entry)
anp_to_mcp_sessions_setdefault(anp_request, sessions, request_id, now) ==
  [i \in DOMAIN sessions \cup {request_id} |->
     IF i \in DOMAIN sessions THEN sessions[i]
     ELSE SessionEntry(anp_request, now)]

\* self.session_map after step 8 of anp_to_mcp, which the path that returns
\* success takes: self.session_map[request_id] = entry
anp_to_mcp_sessions(anp_request, sessions, request_id, now) ==
  [i \in DOMAIN sessions \cup {request_id} |->
     IF i = request_id THEN SessionEntry(anp_request, now) ELSE sessions[i]]

\* anp_to_mcp_session_map with step 8 placed before step 4: the entry is
\* stored once the did is accepted, before intent and parameters are converted
anp_to_mcp_session_map_early(res, anp_request, sessions, request_id, now) ==
  IF \/ res.success
     \/ res.error_code = Str("CONVERSION_ERROR") /\ Hashable(anp_request["did"])
  THEN anp_to_mcp_sessions(anp_request, sessions, request_id, now)
  ELSE sessions

\* self.session_map after anp_to_mcp returned res: step 8 is the last step
\* before `return`, so only the path that returns success reaches it
anp_to_mcp_session_map(res, anp_request, sessions, request_id, now) ==
  IF res.success
  THEN anp_to_mcp_sessions(anp_request, sessions, request_id, now)
  ELSE sessions

\* ------------------------------------------------------------ MCP -> ANP
\* _validate_mcp_response with required_fields = ["id"]
_validate_mcp_response_unmarked(response) ==
  /\ "id" \in DOMAIN response
  /\ ("result" \in DOMAIN response \/ "error" \in DOMAIN response)

\* all(field in response for field in ["jsonrpc", "id"]) and
\* ("result" in response or "error" in response)
_validate_mcp_response(response) ==
  /\ \A field \in {"jsonrpc", "id"} : field \in DOMAIN response
  /\ ("result" \in DOMAIN response \/ "error" \in DOMAIN response)

\* request_id in self.session_map, for a hashable request_id
HasSession(request_id, sessions) ==
  request_id.t = "str" /\ request_id.v \in DOMAIN sessions

\* the two failures mcp_to_anp returns by itself
InvalidMcpFormat == Failure("INVALID_MCP_FORMAT", MsgInvalidMcp)
\* SessionNotFound with the code of the block above it
SessionNotFound_wrong_code == Failure("INVALID_MCP_FORMAT", MsgNoSession)
SessionNotFound == Failure("SESSION_NOT_FOUND", MsgNoSession)

\* HasError that looks at the error field only when there is no result
HasError_without_result(mcp_response) ==
  "error" \in DOMAIN mcp_response /\ "result" \notin DOMAIN mcp_response

\* if "error" in mcp_response
HasError(mcp_response) == "error" \in DOMAIN mcp_response

\* the dict mcp_to_anp returns; every exception a step raises ends the call
\* in the except clause
mcp_to_anp(mcp_response, sessions) ==
  IF ~_validate_mcp_response(mcp_response) THEN InvalidMcpFormat
  ELSE
    LET request_id == mcp_response["id"]
    IN IF ~Hashable(request_id) THEN ConversionError(Unhashable(request_id))
       ELSE IF ~HasSession(request_id, sessions) THEN SessionNotFound
       ELSE
         LET session_info == sessions[request_id.v]
             original_intent == Get(session_info.anp_request, "intent", Null)
         IN IF HasError(mcp_response)
            THEN LET error == mcp_response["error"]
                 IN IF ~IsMapping(error)
                    THEN ConversionError(NoAttribute(error, "get"))
                    ELSE [success |-> FALSE,
                          error |-> DictGet(error, "message", Str(MsgUnknown)),
                          error_code |->
                            DictGet(error, "code", Str("UNKNOWN_ERROR")),
                          context |->
                            [request_id |-> request_id,
                             original_intent |-> original_intent]]
            ELSE [success |-> TRUE,
                  data |-> _convert_mcp_result_to_anp(mcp_response["result"]),
                  context |->
                    [intent |-> original_intent,
                     request_id |-> request_id,
                     did |-> session_info.did]]

\* mcp_to_anp_sessions with self.session_map.pop(request_id) on success
mcp_to_anp_sessions_pop(mcp_response, sessions) ==
  IF mcp_to_anp(mcp_response, sessions).success
  THEN [i \in DOMAIN sessions \ {mcp_response["id"].v} |-> sessions[i]]
  ELSE sessions

\* self.session_map after mcp_to_anp: the method assigns nothing to it
mcp_to_anp_sessions(mcp_response, sessions) == sessions

\* -------------------------------------- arguments that are no mappings
\* The two conversions take whatever JSON value the caller passes. A value
\* that is no mapping is a null, an int, an array of strings (v the sequence
\* of its elements) or a str (v the sequence of its characters).
ListOf(items) == [t |-> "list", v |-> items]
\* the characters of the field names the two validations look for
FieldChars ==
  [did |-> <<"d","i","d">>,
   intent |-> <<"i","n","t","e","n","t">>,
   jsonrpc |-> <<"j","s","o","n","r","p","c">>,
   id |-> <<"i","d">>,
   result |-> <<"r","e","s","u","l","t">>,
   error |-> <<"e","r","r","o","r">>]
IsSubstring(a, b) ==
  \E i \in 0..(Len(b) - Len(a)) : SubSeq(b, i + 1, i + Len(a)) = a
\* `field in x`: x has the element field (a list) or the substring field (a
\* str); a null or an int is not iterable and the test raises TypeError
Iterable(x) == x.t \in {"list", "str"}
In(field, x) ==
  IF x.t = "list" THEN \E i \in 1..Len(x.v) : x.v[i] = field
  ELSE IsSubstring(FieldChars[field], x.v)
NotIterable(x) == "argument of type '" \o TypeName(x) \o "' is not iterable"

\* anp_to_mcp for an anp_request that is no mapping: the validation, then
\* anp_request.get("did")
anp_to_mcp_other(anp_request) ==
  except_Exception(
    IF ~Iterable(anp_request) THEN Raise(NotIterable(anp_request))
    ELSE IF ~(\A field \in {"did", "intent"} : In(field, anp_request))
    THEN InvalidAnpFormat
    ELSE Raise(NoAttribute(anp_request, "get")))

\* mcp_to_anp for an mcp_response that is no mapping: the validation, then
\* mcp_response.get("id")
mcp_to_anp_other(mcp_response) ==
  except_Exception(
    IF ~Iterable(mcp_response) THEN Raise(NotIterable(mcp_response))
    ELSE IF ~(/\ In("result", mcp_response) \/ In("error", mcp_response)
              /\ \A field \in {"jsonrpc", "id"} : In(field, mcp_response))
    THEN InvalidMcpFormat
    ELSE Raise(NoAttribute(mcp_response, "get")))

\* the status the try block of the route convert_mcp_to_anp chooses for the
\* dict of mcp_to_anp: 200 for `return result`, else the status_code of the
\* HTTPException it raises
convert_mcp_to_anp_chosen(result) ==
  IF ~result.success /\ "error_code" \in DOMAIN result
  THEN IF /\ result.error_code.t = "str"
          /\ result.error_code.v = "SESSION_NOT_FOUND"
       THEN 404
       ELSE 400
  ELSE 200

\* the status the client of POST /mcp-to-anp receives: an HTTPException is an
\* Exception and is raised inside the try block, so `except Exception as e`
\* catches it and raises HTTPException(status_code=500) in its place
convert_mcp_to_anp_status(result) ==
  IF convert_mcp_to_anp_chosen(result) = 200 THEN 200 ELSE 500

\* ----------------------------------------------------------- session store
\* self.session_map.get(request_id): the entry, or None
NoSession == [found |-> FALSE]
get_session_info(sessions, request_id) ==
  IF request_id \in DOMAIN sessions
  THEN [found |-> TRUE, session |-> sessions[request_id]]
  ELSE NoSession

\* what clear_session returns, and self.session_map after it
clear_session(sessions, request_id) == request_id \in DOMAIN sessions
\* clear_session_sessions as self.session_map.clear()
clear_session_sessions_all(sessions, request_id) ==
  IF request_id \in DOMAIN sessions THEN <<>> ELSE sessions
clear_session_sessions(sessions, request_id) ==
  IF request_id \in DOMAIN sessions
  THEN [i \in DOMAIN sessions \ {request_id} |-> sessions[i]]
  ELSE sessions

\* ------------------------------------------------------------------ inputs
\* the values f"req-{uuid.uuid4().hex[:8]}" can take, NumIds of them
IdPool == <<"req-00000000", "req-7f3a9c02", "req-ffffffff", "req-0badc0de">>
RequestIds == {IdPool[i] : i \in 1..NumIds}

\* arguments of register_did(did: str, oauth_token: str)
RegisterDids == {"", " ", "did:x"}
Tokens == {"tokA", "tokB"}

weather == <<"U+67E5","U+8BE2","U+5929","U+6C14">>
intent_foo == <<"i","n","t","e","n","t"," ","f","o","o">>
\* values of the fields of an ANP request (Dict[str, Any])
DidValues ==
  {Str("anp_user_001"), Str(""), Str(" "), Str("did:x"), List("x")}
IntentValues == {Str(weather), Str(intent_foo), Null}
ParameterValues == {Dict(<< <<"city", Str("U+5317 U+4EAC")>> >>), Null}
\* the mappings of S, and each of them with field f set to a value of Vals
WithField(S, f, Vals) == S \cup {(f :> x) @@ r : r \in S, x \in Vals}
AnpRequests ==
  WithField(WithField(WithField({<<>>}, "did", DidValues),
                      "intent", IntentValues),
            "parameters", ParameterValues)

\* values of the fields of an MCP response (Dict[str, Any])
IdValues == {Str(i) : i \in RequestIds} \cup {List("x")}
ResultValues == {Dict(<< <<"temp", Num(21)>> >>)}
ErrorValues ==
  {Dict(<< <<"code", Num(-32601)>>, <<"message", Str("not found")>> >>),
   Dict(<<>>), Null}
\* the responses with the protocol marker, and some of them without it
MarkedResponses ==
  WithField(WithField(WithField({"jsonrpc" :> Str("2.0")}, "id", IdValues),
                      "result", ResultValues),
            "error", ErrorValues) \ {"jsonrpc" :> Str("2.0")}
McpResponses ==
  MarkedResponses \cup
  {[f \in DOMAIN r \ {"jsonrpc"} |-> r[f]] :
     r \in {m \in MarkedResponses : DOMAIN m = {"jsonrpc", "id", "result"}}}

\* -------------------------------------------------------------------- state
VARIABLES
  did_oauth_map,  \* self.did_oauth_map
  session_map,    \* self.session_map
  last,           \* the last call: its name, arguments and return value
  reg_log,        \* history: did -> the tokens of its register_did calls,
                  \* in call order
  issued,         \* history: the ids successful anp_to_mcp calls returned
  pending,        \* history: <<id, request>> of the successful anp_to_mcp
                  \* calls whose id was not cleared since
  calls,          \* history: the number of calls so far
  handlers        \* the route handlers in flight on the event loop: what
                  \* each was called with, where it is, what it returned

vars ==
  <<did_oauth_map, session_map, last, reg_log, issued, pending, calls,
    handlers>>

\* one more call, while the run may go on; in Spec each request is handled
\* before the next one arrives and no handler is in flight between the calls
Call == calls < MaxCalls /\ calls' = calls + 1 /\ handlers' = handlers

\* AnpMcpService.__init__: an empty bridge, then the two test dids
PreRegistered ==
  register_did(register_did(<<>>, "test_did_123", "test_oauth_456"),
               "anp_user_001", "mcp_token_001")

Init ==
  /\ did_oauth_map = PreRegistered
  /\ session_map = <<>>
  /\ last = [op |-> "init"]
  /\ reg_log = [d \in DOMAIN PreRegistered |-> <<PreRegistered[d]>>]
  /\ issued = {}
  /\ pending = {}
  /\ calls = 0
  /\ handlers = <<>>

\* POST /register
Register ==
  /\ Call
  /\ \E did \in RegisterDids, oauth_token \in Tokens :
       /\ did_oauth_map' = register_did(did_oauth_map, did, oauth_token)
       /\ last' = [op |-> "register_did", did |-> did,
                   oauth_token |-> oauth_token, res |-> TRUE]
       /\ reg_log' = [d \in DOMAIN reg_log \cup {did} |->
                        IF d = did
                        THEN Append(Get(reg_log, d, <<>>), oauth_token)
                        ELSE reg_log[d]]
       /\ UNCHANGED <<session_map, issued, pending>>

\* datetime.now().isoformat(): the code only stores the timestamp, and the
\* model has a single instant
Now == "2026-01-01T00:00:00"

\* POST /anp-to-mcp; the id is drawn on the path that reaches uuid.uuid4()
AnpToMcp ==
  /\ Call
  /\ \E anp_request \in AnpRequests :
       LET drawn == anp_to_mcp(anp_request, did_oauth_map, IdPool[1]).success
       IN \E request_id \in IF drawn THEN RequestIds ELSE {IdPool[1]} :
            LET res == anp_to_mcp(anp_request, did_oauth_map, request_id)
            IN /\ session_map' =
                    anp_to_mcp_session_map(res, anp_request, session_map,
                                           request_id, Now)
               /\ last' = [op |-> "anp_to_mcp", arg |-> anp_request,
                           res |-> res]
               /\ issued' = IF res.success THEN issued \cup {request_id}
                            ELSE issued
               /\ pending' = IF res.success
                             THEN pending \cup {<<request_id, anp_request>>}
                             ELSE pending
               /\ UNCHANGED <<did_oauth_map, reg_log>>

\* POST /mcp-to-anp
McpToAnp ==
  /\ Call
  /\ \E mcp_response \in McpResponses :
       /\ session_map' = mcp_to_anp_sessions(mcp_response, session_map)
       /\ LET result == mcp_to_anp(mcp_response, session_map)
          IN last' = [op |-> "mcp_to_anp", arg |-> mcp_response,
                      res |-> result,
                      status |-> convert_mcp_to_anp_status(result)]
       /\ UNCHANGED <<did_oauth_map, reg_log, issued, pending>>

\* GET /sessions/{request_id}
GetSession ==
  /\ Call
  /\ \E request_id \in RequestIds :
       /\ last' = [op |-> "get_session_info", arg |-> request_id,
                   res |-> get_session_info(session_map, request_id)]
       /\ UNCHANGED <<did_oauth_map, session_map, reg_log, issued, pending>>

\* DELETE /sessions/{request_id}
ClearSession ==
  /\ Call
  /\ \E request_id \in RequestIds :
       /\ session_map' = clear_session_sessions(session_map, request_id)
       /\ last' = [op |-> "clear_session", arg |-> request_id,
                   res |-> clear_session(session_map, request_id)]
       /\ pending' = {p \in pending : p[1] # request_id}
       /\ UNCHANGED <<did_oauth_map, reg_log, issued>>

Next == Register \/ AnpToMcp \/ McpToAnp \/ GetSession \/ ClearSession

Spec == Init /\ [][Next]_vars

\* ------------------------------------------- the conversions, one by one
\* Each behaviour of SpecFn starts with one input of one conversion and
\* applies the conversion to it.
IntentAlphabet == {"a", "B", " "}
TableIntents == {p[1] : p \in intent_method_map}
FnIntents ==
  UNION {[1..n -> IntentAlphabet] : n \in 0..MaxIntentLen}
    \cup TableIntents \cup {intent_foo}

ParamKeys == {"user_id", "userId", "city", "note"}
ParamVals == {Str("u1"), Str("u2")}
FnParams ==
  {Dict(items) :
     items \in {q \in UNION {[1..n -> ParamKeys \X ParamVals] :
                               n \in 0..MaxParams} :
                  \A i, j \in 1..Len(q) : i # j => q[i][1] # q[j][1]}}

FnDidValues == {Str("anp_user_001"), Null}
FnIntentValues ==
  {Str(i) : i \in TableIntents \cup {intent_foo}}
    \cup {Null, Num(7), List("x")}
FnParameterValues ==
  {Dict(<< <<"city", Str("U+5317 U+4EAC")>> >>), Null, Num(7), List("x")}
FnAnpRequests ==
  WithField(WithField(WithField({<<>>}, "did", FnDidValues),
                      "intent", FnIntentValues),
            "parameters", FnParameterValues)

\* JSON values that are no mappings
did_intent == FieldChars.did \o <<" ">> \o FieldChars.intent
jsonrpc_result == FieldChars.jsonrpc \o <<" ">> \o FieldChars.result
jsonrpc_did_error ==
  FieldChars.jsonrpc \o <<" ">> \o FieldChars.did \o <<" ">> \o FieldChars.error
NonMappings ==
  {Null, Num(7), ListOf(<<>>), ListOf(<<"did", "intent">>),
   ListOf(<<"jsonrpc", "id", "error">>), Str(did_intent),
   Str(jsonrpc_result), Str(jsonrpc_did_error)}

\* the session stores mcp_to_anp is applied to: the empty one, and the one
\* after anp_to_mcp returned the first id of the pool for a request
FnRequest == [did |-> Str("anp_user_001"), intent |-> Str(intent_foo)]
FnSessions == {<<>>, IdPool[1] :> SessionEntry(FnRequest, Now)}

Input(f, x) == [op |-> "input", f |-> f, arg |-> x]
Output(f, x, y) == [op |-> f, arg |-> x, res |-> y]

InitFn ==
  /\ did_oauth_map = PreRegistered
  /\ reg_log = [d \in DOMAIN PreRegistered |-> <<PreRegistered[d]>>]
  /\ calls = 0
  /\ handlers = <<>>
  /\ \/ /\ session_map = <<>>
        /\ issued = {}
        /\ pending = {}
        /\ \/ \E intent \in FnIntents :
                last = Input("_convert_intent_to_method", intent)
           \/ \E params \in FnParams :
                last = Input("_convert_anp_params_to_mcp", params)
           \/ \E anp_request \in FnAnpRequests :
                last = Input("anp_to_mcp", anp_request)
           \/ \E x \in NonMappings : last = Input("anp_to_mcp_other", x)
     \/ \E sessions \in FnSessions :
          /\ session_map = sessions
          /\ issued = DOMAIN sessions
          /\ pending = {<<i, sessions[i].anp_request>> : i \in DOMAIN sessions}
          /\ \/ \E mcp_response \in McpResponses :
                  last = Input("mcp_to_anp", mcp_response)
             \/ \E x \in NonMappings : last = Input("mcp_to_anp_other", x)

\* the input of last is one of conversion f
Given(f) == last.op = "input" /\ last.f = f
Kept ==
  UNCHANGED <<did_oauth_map, session_map, reg_log, issued, pending, calls,
              handlers>>

IntentToMethod ==
  /\ Given("_convert_intent_to_method")
  /\ last' = Output("_convert_intent_to_method", last.arg,
                    _convert_intent_to_method(last.arg))
  /\ Kept

TranslateParams ==
  /\ Given("_convert_anp_params_to_mcp")
  /\ last' = Output("_convert_anp_params_to_mcp", last.arg,
                    _convert_anp_params_to_mcp(last.arg))
  /\ Kept

\* the dict anp_to_mcp returns for a mapping, for any id it draws
AnpToMcpReturn ==
  /\ Given("anp_to_mcp")
  /\ \E request_id \in RequestIds :
       last' = Output("anp_to_mcp", last.arg,
                      anp_to_mcp(last.arg, did_oauth_map, request_id))
  /\ Kept

AnpToMcpOther ==
  /\ Given("anp_to_mcp_other")
  /\ last' = Output("anp_to_mcp_other", last.arg, anp_to_mcp_other(last.arg))
  /\ Kept

McpToAnpReturn ==
  /\ Given("mcp_to_anp")
  /\ last' = Output("mcp_to_anp", last.arg, mcp_to_anp(last.arg, session_map))
  /\ Kept

McpToAnpOther ==
  /\ Given("mcp_to_anp_other")
  /\ last' = Output("mcp_to_anp_other", last.arg, mcp_to_anp_other(last.arg))
  /\ Kept

NextFn ==
  \/ IntentToMethod \/ TranslateParams \/ AnpToMcpReturn \/ AnpToMcpOther
  \/ McpToAnpReturn \/ McpToAnpOther

SpecFn == InitFn /\ [][NextFn]_vars

\* ------------------------------------------------- simultaneous requests
\* SpecLoop: MaxCalls clients send POST /register and POST /anp-to-mcp at the
\* same time. uvicorn.run(self.app) serves them on one event loop; a route is
\* a coroutine that runs until it awaits or returns. The route register_did
\* has no await; the route convert_anp_to_mcp awaits request.json() and then
\* calls the bridge and returns without another await.
Clients == 1..MaxCalls
LoopRequests ==
  {[did |-> Str("did:x"), intent |-> Str(weather)],
   [did |-> Str("anp_user_001"), intent |-> Str(intent_foo)]}
RegisterCalls ==
  {[op |-> "register_did", pc |-> "start", did |-> "did:x", oauth_token |-> t] :
     t \in Tokens}
AnpToMcpCalls ==
  {[op |-> "anp_to_mcp", pc |-> "start", arg |-> r] : r \in LoopRequests}

InitLoop ==
  /\ did_oauth_map = PreRegistered
  /\ session_map = <<>>
  /\ last = [op |-> "init"]
  /\ reg_log = [d \in DOMAIN PreRegistered |-> <<PreRegistered[d]>>]
  /\ issued = {}
  /\ pending = {}
  /\ calls = 0
  /\ handlers \in [Clients -> RegisterCalls \cup AnpToMcpCalls]

\* handler h with these fields changed
Moved(h, changes) ==
  [handlers EXCEPT ![h] = changes @@ handlers[h]]

\* the route register_did, from its call to its return
RegisterRoute(h) ==
  /\ handlers[h].op = "register_did"
  /\ handlers[h].pc = "start"
  /\ LET did == handlers[h].did
         oauth_token == handlers[h].oauth_token
     IN /\ did_oauth_map' = register_did(did_oauth_map, did, oauth_token)
        /\ last' = [op |-> "register_did", did |-> did,
                    oauth_token |-> oauth_token, res |-> TRUE]
        /\ reg_log' = [d \in DOMAIN reg_log \cup {did} |->
                         IF d = did
                         THEN Append(Get(reg_log, d, <<>>), oauth_token)
                         ELSE reg_log[d]]
        /\ handlers' = Moved(h, [pc |-> "done", res |-> TRUE])
  /\ calls' = calls + 1
  /\ UNCHANGED <<session_map, issued, pending>>

\* the route convert_anp_to_mcp up to `await request.json()`
AwaitJson(h) ==
  /\ handlers[h].op = "anp_to_mcp"
  /\ handlers[h].pc = "start"
  /\ handlers' = Moved(h, [pc |-> "parsed"])
  /\ UNCHANGED <<did_oauth_map, session_map, last, reg_log, issued, pending,
                 calls>>

\* the route convert_anp_to_mcp from the value of request.json() to its
\* return or its HTTPException
AnpToMcpRoute(h) ==
  /\ handlers[h].op = "anp_to_mcp"
  /\ handlers[h].pc = "parsed"
  /\ LET anp_request == handlers[h].arg
         drawn == anp_to_mcp(anp_request, did_oauth_map, IdPool[1]).success
     IN \E request_id \in IF drawn THEN RequestIds ELSE {IdPool[1]} :
          LET res == anp_to_mcp(anp_request, did_oauth_map, request_id)
          IN /\ session_map' =
                  anp_to_mcp_session_map(res, anp_request, session_map,
                                         request_id, Now)
             /\ last' = [op |-> "anp_to_mcp", arg |-> anp_request,
                         res |-> res]
             /\ issued' = IF res.success THEN issued \cup {request_id}
                          ELSE issued
             /\ pending' = IF res.success
                           THEN pending \cup {<<request_id, anp_request>>}
                           ELSE pending
             /\ handlers' = Moved(h, [pc |-> "done", res |-> res])
  /\ calls' = calls + 1
  /\ UNCHANGED <<did_oauth_map, reg_log>>

NextLoop ==
  \E h \in Clients : RegisterRoute(h) \/ AwaitJson(h) \/ AnpToMcpRoute(h)

SpecLoop == InitLoop /\ [][NextLoop]_vars

\* ------------------------------------------------------------------ claims
\* res is a failure with this error code
Fails(res, code) ==
  ~res.success /\ res.error_code.t = "str" /\ res.error_code.v = code
\* jsonrpc and id present, result or error present
WellFormed(response) ==
  /\ {"jsonrpc", "id"} \subseteq DOMAIN response
  /\ {"result", "error"} \cap DOMAIN response # {}
\* a well-formed success response: jsonrpc, id and result, no error
SuccessResponse(response) == DOMAIN response = {"jsonrpc", "id", "result"}
\* the request has both required fields
HasBoth(request) == {"did", "intent"} \subseteq DOMAIN request
\* the did was passed to register_did at some time (the constructor included)
EverRegistered(did) == did.t = "str" /\ did.v \in DOMAIN reg_log

\* C1: once anp_to_mcp(r) returned id x and x was not cleared since, mcp_to_anp
\* on a success response with id x returns success with the intent and the
\* did of r, whatever calls came in between.
C1_RoundTrip ==
  (last.op = "mcp_to_anp" /\ SuccessResponse(last.arg)) =>
    \A p \in pending :
      (last.arg["id"].t = "str" /\ last.arg["id"].v = p[1]) =>
        /\ last.res.success
        /\ last.res.context.intent = p[2]["intent"]
        /\ last.res.context.did = p[2]["did"]

\* C2: a successful anp_to_mcp returns an id no earlier successful call
\* returned, so its entry replaces no entry of the session store.
C2_UniqueIds ==
  [][(last'.op = "anp_to_mcp" /\ last'.res.success) =>
       /\ last'.res.request_id \notin issued
       /\ last'.res.request_id \notin DOMAIN session_map]_vars

\* C3: a request without did or without intent fails with INVALID_ANP_FORMAT
\* and leaves the session store as it was, the did registered or not.
C3_MissingField ==
  [][(last'.op = "anp_to_mcp" /\ ~HasBoth(last'.arg)) =>
       /\ Fails(last'.res, "INVALID_ANP_FORMAT")
       /\ session_map' = session_map]_vars
C3_Witness ==
  /\ last.op = "anp_to_mcp"
  /\ DOMAIN last.arg = {"did", "parameters"}
  /\ Registered(last.arg["did"], did_oauth_map)
  /\ Fails(last.res, "INVALID_ANP_FORMAT")
  /\ DOMAIN session_map # {}

\* C4 as stated: a request with did and intent whose did was never passed to
\* register_did fails with INVALID_DID, whatever intent and parameters are.
C4_Original ==
  (/\ last.op = "anp_to_mcp"
   /\ HasBoth(last.arg)
   /\ ~EverRegistered(last.arg["did"])) =>
    Fails(last.res, "INVALID_DID")
\* C4 as amended: the same for a did that is hashable (a string or null
\* here); a non-empty array as did ends in CONVERSION_ERROR instead.
C4_UnregisteredDid ==
  (/\ last.op = "anp_to_mcp"
   /\ HasBoth(last.arg)
   /\ last.arg["did"].t \in {"str", "null", "int"}
   /\ ~EverRegistered(last.arg["did"])) =>
    Fails(last.res, "INVALID_DID")
C4_Witness ==
  /\ last.op = "anp_to_mcp"
  /\ DOMAIN last.arg = {"did", "intent", "parameters"}
  /\ last.arg["did"] = Str("did:x")
  /\ "did:x" \notin DOMAIN reg_log
  /\ last.arg["intent"] = Null
  /\ last.arg["parameters"] = Null
  /\ Fails(last.res, "INVALID_DID")

\* C5 as stated: an empty or a blank did fails with INVALID_DID, also after
\* register_did was called with that did.
C5_Original ==
  (/\ last.op = "anp_to_mcp"
   /\ HasBoth(last.arg)
   /\ last.arg["did"] \in {Str(""), Str(" ")}) =>
    Fails(last.res, "INVALID_DID")
\* C5 as amended: an empty did fails with INVALID_DID, also after
\* register_did was called with it; a blank did fails with INVALID_DID
\* exactly while it is unregistered.
C5_EmptyDid ==
  (last.op = "anp_to_mcp" /\ HasBoth(last.arg)) =>
    /\ last.arg["did"] = Str("") => Fails(last.res, "INVALID_DID")
    /\ last.arg["did"] = Str(" ") =>
         (Fails(last.res, "INVALID_DID") <=> " " \notin DOMAIN reg_log)
C5_Witness ==
  /\ last.op = "anp_to_mcp"
  /\ HasBoth(last.arg)
  /\ last.arg["did"] = Str("")
  /\ last.arg["intent"] = Str(weather)
  /\ "" \in DOMAIN reg_log
  /\ Fails(last.res, "INVALID_DID")

\* C6 as stated: a well-formed response whose id is not a key of the
\* session store at the call fails with SESSION_NOT_FOUND.
C6_Original ==
  [][(/\ last'.op = "mcp_to_anp"
      /\ WellFormed(last'.arg)
      /\ ~(/\ last'.arg["id"].t = "str"
            /\ last'.arg["id"].v \in DOMAIN session_map)) =>
       Fails(last'.res, "SESSION_NOT_FOUND")]_vars
\* C6 as amended: the same for an id that is hashable (a string here); an
\* array as id ends in CONVERSION_ERROR instead.
C6_UnknownSession ==
  [][(/\ last'.op = "mcp_to_anp"
      /\ WellFormed(last'.arg)
      /\ last'.arg["id"].t \in {"str", "null", "int"}
      /\ ~(/\ last'.arg["id"].t = "str"
            /\ last'.arg["id"].v \in DOMAIN session_map)) =>
       Fails(last'.res, "SESSION_NOT_FOUND")]_vars
C6_Witness ==
  /\ last.op = "mcp_to_anp"
  /\ WellFormed(last.arg)
  /\ last.arg["id"].t = "str"
  /\ last.arg["id"].v \in issued \ DOMAIN session_map
  /\ Fails(last.res, "SESSION_NOT_FOUND")

\* C7: clear_session(id) returns whether id had an entry; after it id has
\* none, every other entry is as before, get_session_info(id) finds nothing
\* and mcp_to_anp on a well-formed response with that id fails with
\* SESSION_NOT_FOUND.
C7_ClearSession ==
  [][last'.op = "clear_session" =>
       LET id == last'.arg
       IN /\ last'.res = (id \in DOMAIN session_map)
          /\ DOMAIN session_map' = DOMAIN session_map \ {id}
          /\ \A j \in DOMAIN session_map' : session_map'[j] = session_map[j]
          /\ ~get_session_info(session_map', id).found
          /\ \A response \in McpResponses :
               (WellFormed(response) /\ response["id"] = Str(id)) =>
                 Fails(mcp_to_anp(response, session_map'),
                       "SESSION_NOT_FOUND")]_vars
C7_Witness ==
  /\ last.op = "clear_session"
  /\ last.res = TRUE
  /\ last.arg \in issued
  /\ DOMAIN session_map # {}

\* C8: register_did returns true, sets the did's token and changes no other
\* did's; a successful anp_to_mcp for did d carries the token of the latest
\* register_did(d, _) call.
C8_LastWriteWins ==
  [][/\ last'.op = "register_did" =>
          /\ last'.res = TRUE
          /\ DOMAIN did_oauth_map' = DOMAIN did_oauth_map \cup {last'.did}
          /\ did_oauth_map'[last'.did] = last'.oauth_token
          /\ \A d \in DOMAIN did_oauth_map \ {last'.did} :
               did_oauth_map'[d] = did_oauth_map[d]
     /\ (last'.op = "anp_to_mcp" /\ last'.res.success) =>
          LET tokens == reg_log'[last'.arg["did"].v]
          IN last'.res.mcp_request.oauth_token = tokens[Len(tokens)]]_vars
C8_Witness ==
  /\ last.op = "anp_to_mcp"
  /\ last.res.success
  /\ last.arg["did"] = Str("did:x")
  /\ Len(reg_log["did:x"]) = 2
  /\ reg_log["did:x"][1] # reg_log["did:x"][2]
  /\ last.res.mcp_request.oauth_token = reg_log["did:x"][2]

\* C9: a successful anp_to_mcp(r) returns an envelope with marker "2.0", the
\* method of r's intent, the translated parameters and the returned id, and
\* the session store then holds under that id an entry with request r and
\* did r.did.
C9_Envelope ==
  (last.op = "anp_to_mcp" /\ last.res.success) =>
    LET r == last.arg
        envelope == last.res.mcp_request
        id == last.res.request_id
    IN /\ envelope.jsonrpc = "2.0"
       /\ envelope.method = _convert_intent_to_method(r["intent"].v)
       /\ envelope.params =
            _convert_anp_params_to_mcp(Get(r, "parameters", Dict(<<>>)))
       /\ envelope.id = id
       /\ id \in DOMAIN session_map
       /\ session_map[id].anp_request = r
       /\ session_map[id].did = r["did"]
C9_Witness ==
  /\ last.op = "anp_to_mcp"
  /\ last.res.success
  /\ last.arg["intent"] = Str(intent_foo)
  /\ "parameters" \in DOMAIN last.arg
  /\ last.res.mcp_request.params = ("cityName" :> Str("U+5317 U+4EAC"))
  /\ Cardinality(DOMAIN session_map) = 2

\* C10: mcp_to_anp leaves every session entry as it was, whatever it
\* returns; a resolved session is still found by get_session_info and
\* resolves again to the same answer.
C10_SessionsKept ==
  [][last'.op = "mcp_to_anp" =>
       /\ session_map' = session_map
       /\ last'.res.success =>
            /\ get_session_info(session_map', last'.arg["id"].v).found
            /\ mcp_to_anp(last'.arg, session_map') = last'.res]_vars
C10_Witness ==
  /\ last.op = "mcp_to_anp"
  /\ last.res.success
  /\ get_session_info(session_map, last.arg["id"].v).found

\* C11: a response without jsonrpc, without id, or with neither result nor
\* error fails with INVALID_MCP_FORMAT, whether the session store has an entry
\* for its id or not: the shape is checked before the session lookup.
C11_InvalidMcpFormat ==
  (last.op = "mcp_to_anp" /\ ~WellFormed(last.arg)) =>
    Fails(last.res, "INVALID_MCP_FORMAT")
C11_Witness ==
  /\ last.op = "mcp_to_anp"
  /\ DOMAIN last.arg = {"id", "result"}
  /\ HasSession(last.arg["id"], session_map)
  /\ Fails(last.res, "INVALID_MCP_FORMAT")

\* the response is well-formed, has an error field and its id has an entry
ErrorForSession(response, sessions) ==
  /\ WellFormed(response)
  /\ "error" \in DOMAIN response
  /\ response["id"].t = "str"
  /\ response["id"].v \in DOMAIN sessions
\* res is the failure that surfaces the message and the code of the mapping
\* err (the defaults of the code where err has none), with the id and the
\* intent of the session entry as context
Surfaces(res, err, response, sessions) ==
  /\ ~res.success
  /\ \A i \in 1..Len(err.v) : err.v[i][1] = "message" => res.error = err.v[i][2]
  /\ ~HasKey(err, "message") => res.error = Str(MsgUnknown)
  /\ \A i \in 1..Len(err.v) :
       err.v[i][1] = "code" => res.error_code = err.v[i][2]
  /\ ~HasKey(err, "code") => res.error_code = Str("UNKNOWN_ERROR")
  /\ "context" \in DOMAIN res
  /\ res.context.request_id = response["id"]
  /\ res.context.original_intent =
       sessions[response["id"].v].anp_request["intent"]

\* C12 as stated: a well-formed response with an error field whose id has a
\* session entry gives success=false with the error's message and code and a
\* context of the id and the original intent, with or without a result field.
C12_Original ==
  (last.op = "mcp_to_anp" /\ ErrorForSession(last.arg, session_map)) =>
    /\ ~last.res.success
    /\ "context" \in DOMAIN last.res
    /\ last.res.context.request_id = last.arg["id"]
    /\ last.res.context.original_intent =
         session_map[last.arg["id"].v].anp_request["intent"]
    /\ IsMapping(last.arg["error"]) =>
         Surfaces(last.res, last.arg["error"], last.arg, session_map)
\* C12 as amended: the same when the error field is a mapping, a missing
\* message or code replaced by the default; an error field that is no mapping
\* gives CONVERSION_ERROR without a context.
C12_UpstreamError ==
  (last.op = "mcp_to_anp" /\ ErrorForSession(last.arg, session_map)) =>
    IF IsMapping(last.arg["error"])
    THEN Surfaces(last.res, last.arg["error"], last.arg, session_map)
    ELSE Fails(last.res, "CONVERSION_ERROR") /\ "context" \notin DOMAIN last.res
C12_Witness ==
  /\ last.op = "mcp_to_anp"
  /\ DOMAIN last.arg = {"jsonrpc", "id", "result", "error"}
  /\ HasSession(last.arg["id"], session_map)
  /\ HasKey(last.arg["error"], "message")
  /\ ~last.res.success
  /\ last.res.error = Str("not found")
  /\ last.res.error_code = Num(-32601)
  /\ last.res.context.original_intent = Str(intent_foo)

\* C15: when mcp_to_anp fails with SESSION_NOT_FOUND the client of
\* POST /mcp-to-anp receives status 404, and when it fails otherwise the
\* client receives status 400.
C15_StatusReceived ==
  (last.op = "mcp_to_anp" /\ ~last.res.success) =>
    last.status = IF Fails(last.res, "SESSION_NOT_FOUND") THEN 404 ELSE 400

\* C19: an anp_to_mcp call that returns a failure leaves the session store
\* and the identity registry as they were, also when it fails while the
\* intent or the parameters are converted.
C19_FailureWritesNothing ==
  [][(last'.op = "anp_to_mcp" /\ ~last'.res.success) =>
       /\ session_map' = session_map
       /\ did_oauth_map' = did_oauth_map]_vars
C19_Witness ==
  /\ last.op = "anp_to_mcp"
  /\ HasBoth(last.arg)
  /\ Registered(last.arg["did"], did_oauth_map)
  /\ IsStr(last.arg["intent"])
  /\ "parameters" \in DOMAIN last.arg
  /\ Fails(last.res, "CONVERSION_ERROR")
  /\ DOMAIN session_map # {}

\* C20: in every reachable state the did of each session entry is the did
\* field of the request the entry stores and is a key of the identity
\* registry.
C20_SessionsOfKnownDids ==
  \A id \in DOMAIN session_map :
    LET entry == session_map[id]
    IN /\ "did" \in DOMAIN entry.anp_request
       /\ entry.did = entry.anp_request["did"]
       /\ entry.did.t = "str"
       /\ entry.did.v \in DOMAIN did_oauth_map
C20_Witness ==
  /\ last.op = "register_did"
  /\ last.did # "did:x"
  /\ \E id \in DOMAIN session_map : session_map[id].did = Str("did:x")

\* the error codes the two conversions define
DefinedCodes ==
  {"INVALID_ANP_FORMAT", "INVALID_DID", "INVALID_MCP_FORMAT",
   "SESSION_NOT_FOUND", "CONVERSION_ERROR"}
\* res is a returned dict with a boolean success, and a failure has an error
\* and a defined error code, or the context of an upstream error passed on
Discriminated(res) ==
  /\ ~IsRaise(res)
  /\ "success" \in DOMAIN res
  /\ res.success \in BOOLEAN
  /\ ~res.success =>
       /\ {"error", "error_code"} \subseteq DOMAIN res
       /\ \/ res.error_code.t = "str" /\ res.error_code.v \in DefinedCodes
          \/ "context" \in DOMAIN res

\* C13: anp_to_mcp and mcp_to_anp return a discriminated result for every
\* input and never raise; a request or a response that is no mapping and not
\* iterable, a non-string intent or a non-mapping parameters value of a
\* registered did, and a non-mapping error of a known session end in
\* CONVERSION_ERROR.
C13_NeverRaises ==
  /\ last.op \in {"anp_to_mcp", "anp_to_mcp_other", "mcp_to_anp",
                  "mcp_to_anp_other"} => Discriminated(last.res)
  /\ (last.op \in {"anp_to_mcp_other", "mcp_to_anp_other"}
      /\ last.arg.t \in {"null", "int"}) => Fails(last.res, "CONVERSION_ERROR")
  /\ (/\ last.op = "anp_to_mcp"
      /\ HasBoth(last.arg)
      /\ last.arg["did"] = Str("anp_user_001")
      /\ \/ last.arg["intent"].t # "str"
         \/ /\ "parameters" \in DOMAIN last.arg
            /\ last.arg["parameters"].t # "dict") =>
       Fails(last.res, "CONVERSION_ERROR")
  /\ (/\ last.op = "mcp_to_anp"
      /\ ErrorForSession(last.arg, session_map)
      /\ last.arg["error"].t # "dict") => Fails(last.res, "CONVERSION_ERROR")
C13_Witness ==
  /\ last.op = "anp_to_mcp_other"
  /\ last.arg.t = "null"
  /\ Fails(last.res, "CONVERSION_ERROR")

\* the positions of the characters of s that are no whitespace, and the n-th
\* of them
Inked(s) == {k \in 1..Len(s) : s[k] \notin Whitespace}
Nth(P, n) == CHOOSE p \in P : Cardinality({q \in P : q <= p}) = n
\* position k of s starts a token; position k of s is in the first token
StartsToken(s, k) == k = 1 \/ s[k - 1] \in Whitespace
InFirstToken(s, k) ==
  \A j \in 1..k : j \in Inked(s) \/ \A i \in 1..j : i \notin Inked(s)
Same(c) == c
\* "query" for an s without tokens; otherwise the tokens of s joined, the
\* first one lower-cased, each later one with its first character upper-cased
\* and Rest applied to its other characters
Camel(s, Rest(_)) ==
  IF Inked(s) = {} THEN query
  ELSE [n \in 1..Cardinality(Inked(s)) |->
          LET k == Nth(Inked(s), n)
          IN IF InFirstToken(s, k) THEN LowerChar(s[k])
             ELSE IF StartsToken(s, k) THEN UpperChar(s[k])
             ELSE Rest(s[k])]

\* C16 as stated: for an intent outside the table the method is "query" when
\* the intent has no token, else the first token lower-cased followed by each
\* later token with its first character upper-cased and the rest as written.
C16_Original ==
  (last.op = "_convert_intent_to_method" /\ last.arg \notin TableIntents) =>
    last.res = Camel(last.arg, Same)
\* C16 as amended: the same, the rest of each later token lower-cased.
C16_Fallback ==
  (last.op = "_convert_intent_to_method" /\ last.arg \notin TableIntents) =>
    last.res = Camel(last.arg, LowerChar)
C16_Witness ==
  /\ last.op = "_convert_intent_to_method"
  /\ last.arg = <<"B", " ", "a", "B">>
  /\ last.res = <<"b", "A", "b">>

\* the key the table renames k to, and the keys of a parameters mapping
Rename(k) == IF k \in DOMAIN param_key_map THEN param_key_map[k] ELSE k
KeysOf(p) == {p.v[i][1] : i \in 1..Len(p.v)}

\* C17 as stated: the result maps Rename(k) to p[k] for every key k of p and
\* has no other key, for every p.
C17_Original ==
  last.op = "_convert_anp_params_to_mcp" =>
    /\ DOMAIN last.res = {Rename(k) : k \in KeysOf(last.arg)}
    /\ \A i \in 1..Len(last.arg.v) :
         last.res[Rename(last.arg.v[i][1])] = last.arg.v[i][2]
\* C17 as amended: the same for every key of p that no later key of p is
\* renamed to the same key as; of the keys renamed to one key, the last one
\* in the order of p gives the value.
C17_RenameKeys ==
  last.op = "_convert_anp_params_to_mcp" =>
    /\ DOMAIN last.res = {Rename(k) : k \in KeysOf(last.arg)}
    /\ \A i \in 1..Len(last.arg.v) :
         (\A j \in (i + 1)..Len(last.arg.v) :
            Rename(last.arg.v[j][1]) # Rename(last.arg.v[i][1])) =>
           last.res[Rename(last.arg.v[i][1])] = last.arg.v[i][2]
C17_Witness ==
  /\ last.op = "_convert_anp_params_to_mcp"
  /\ last.arg = Dict(<< <<"user_id", Str("u1")>>, <<"userId", Str("u2")>> >>)
  /\ last.res = ("userId" :> Str("u2"))

\* C18: for an intent of the table, _convert_intent_to_method returns the
\* configured method, and a successful anp_to_mcp returns an envelope with
\* that method.
C18_ConfiguredMethod ==
  /\ (last.op = "anp_to_mcp" /\ last.res.success) =>
       \A p \in intent_method_map :
         p[1] = last.arg["intent"].v => last.res.mcp_request.method = p[2]
  /\ last.op = "_convert_intent_to_method" =>
       \A p \in intent_method_map : p[1] = last.arg => last.res = p[2]
C18_Witness ==
  /\ last.op = "anp_to_mcp"
  /\ last.res.success
  /\ last.arg["intent"] = Str(weather)
  /\ last.res.mcp_request.method = getWeather

\* every handler has returned
AllReturned == \A h \in DOMAIN handlers : handlers[h].pc = "done"
\* C14: once all simultaneous register_did and anp_to_mcp calls have
\* returned, every did passed to register_did maps to the token of one of its
\* calls, and every id a successful anp_to_mcp returned has a session entry
\* that holds the request of that call.
C14_NoLostUpdate ==
  (handlers # <<>> /\ AllReturned) =>
    \A h \in DOMAIN handlers :
      /\ handlers[h].op = "register_did" =>
           /\ handlers[h].did \in DOMAIN did_oauth_map
           /\ \E g \in DOMAIN handlers :
                /\ handlers[g].op = "register_did"
                /\ handlers[g].did = handlers[h].did
                /\ did_oauth_map[handlers[h].did] = handlers[g].oauth_token
      /\ (handlers[h].op = "anp_to_mcp" /\ handlers[h].res.success) =>
           /\ handlers[h].res.request_id \in DOMAIN session_map
           /\ session_map[handlers[h].res.request_id].anp_request =
                handlers[h].arg

====
